---- MODULE Spec2Model ----
(***************************************************************************)
(* QRNG controller: the event accumulator loop (main.rs), the submission   *)
(* pipeline send_random_number and the proof decoder parse_vrf_proof       *)
(* (lib.rs), and the offline generator (offline.rs).                       *)
(*                                                                         *)
(* Fixed-width unsigned integers (u32, u64, U256) are little-endian        *)
(* sequences of 16-bit limbs, so that every value of the width is          *)
(* representable and narrowing, wrap-around and byte order are computed,   *)
(* not assumed.  A u8 is a plain integer in 0..255.                        *)
(***************************************************************************)
EXTENDS Integers, Sequences, FiniteSets, TLC

VARIABLES
    pc,               \* where the process is: startup, the loop, inside the pipeline, ended
    interface,        \* the generator built at startup: "Tcp" (hardware) or "OfflineGenerator"
    stream,           \* how many logs the subscription holds, delivered and not yet consumed
    log,              \* main.rs: the log stream.next() yielded last
    generation_left,  \* main.rs: the outstanding count (U256)
    nonce,            \* main.rs: the nonce last read from the chain (u64)
    signed_qrn_data,  \* lib.rs: what get_signed returned to the pipeline
    calls,            \* external calls issued by the current pipeline invocation, in order
    receipt,          \* lib.rs: the receipt of the submitted transaction
    result,           \* what the pipeline (and then main) returned
    buf,              \* parse_vrf_proof: its argument
    proof_out         \* parse_vrf_proof: its outcome

loop_vars == <<pc, interface, stream, log, generation_left, nonce>>
pipe_vars == <<signed_qrn_data, calls, receipt, result>>
codec_vars == <<buf, proof_out>>
vars == <<loop_vars, pipe_vars, codec_vars>>

----------------------------------------------------------------------------
(* Bounds of the model *)

\* Byte patterns tried for each buffer length, and seeds of the offline rng.
MaxSeed == 2

\* Logs the subscription holds unconsumed at one time.
MaxQueue == 2

\* Amounts 0..MaxAmount (and 2^32 + 0..MaxAmount) are handed to the pipeline on its own.
MaxAmount == 5

----------------------------------------------------------------------------
(* Fixed-width integers *)

LimbBase == 256 * 256
U32Limbs == 32 \div 16
U64Limbs == 64 \div 16
U256Limbs == 256 \div 16

RECURSIVE FromNat(_, _)
\* The n-limb integer of a small natural k (U256::from(k), `k as u64`).
FromNat(k, n) ==
    IF n = 0 THEN <<>> ELSE <<k % LimbBase>> \o FromNat(k \div LimbBase, n - 1)

IsZero(x) == \A j \in 1..Len(x) : x[j] = 0

RECURSIVE AddCarry(_, _, _)
\* Limb-wise sum of two integers of the same width; the last element is the carry out.
AddCarry(x, y, c) ==
    IF x = <<>> THEN <<c>>
    ELSE LET s == Head(x) + Head(y) + c
         IN <<s % LimbBase>> \o AddCarry(Tail(x), Tail(y), s \div LimbBase)

WrappingAdd(x, y) == SubSeq(AddCarry(x, y, 0), 1, Len(x))
AddOverflows(x, y) == AddCarry(x, y, 0)[Len(x) + 1] # 0

RECURSIVE Less(_, _)
\* x < y, for integers of the same width (compared from the top limb down).
Less(x, y) ==
    IF x = <<>> THEN FALSE
    ELSE LET n == Len(x)
         IN IF x[n] # y[n] THEN x[n] < y[n]
            ELSE Less(SubSeq(x, 1, n - 1), SubSeq(y, 1, n - 1))

\* x >= y
GreaterEq(x, y) == ~Less(x, y)

\* Widening (`amount as u64`): zero limbs on top.
Widen(x, n) == x \o [j \in 1..(n - Len(x)) |-> 0]

\* U256::into_limbs()[0] as u32: the low 64 bits, then the low 32 of those.
LowLimbAsU32(x) == SubSeq(SubSeq(x, 1, U64Limbs), 1, U32Limbs)

\* U256::from_be_bytes and friends: big-endian bytes to limbs.
FromBeBytes(b) ==
    LET n == Len(b) \div 2
    IN [j \in 1..n |-> 256 * b[2 * n + 1 - 2 * j] + b[2 * n + 2 - 2 * j]]

\* to_be_bytes: limbs to big-endian bytes.
ToBeBytes(x) ==
    LET n == Len(x)
    IN [k \in 1..(2 * n) |->
           LET j == n - ((k - 1) \div 2)
           IN IF k % 2 = 1 THEN x[j] \div 256 ELSE x[j] % 256]

----------------------------------------------------------------------------
(* parse_vrf_proof (lib.rs) *)

\* A variable that holds nothing yet.
None == [none |-> TRUE]

\* No log has been taken from the stream yet.
NoLog == [event |-> "none"]

\* What a panic leaves behind: no value.
Panic == [panic |-> TRUE]
IsPanic(r) == "panic" \in DOMAIN r

\* Bytes buf[i..i + n], i counted from 0.
Slice(b, i, n) == SubSeq(b, i + 1, i + n)

\* The cursor advanced by a whole word after the witness too.
Advances_WitnessAsWord == <<32, 32, 32, 32, 32, 32, 32, 32, 32, 32, 32, 32, 32>>

\* The 20-byte advance made one read early, after s instead of after the witness.
Advances_ShortAfterS == <<32, 32, 32, 32, 32, 32, 20, 32, 32, 32, 32, 32, 32>>

\* The n of the successive next_n(n) calls: how far each read advances the cursor.
Advances == <<32, 32, 32, 32, 32, 32, 32, 20, 32, 32, 32, 32, 32>>

\* Every next_n reads this many bytes at the cursor, whatever it advances by.
ReadLen == 32

RECURSIVE CursorAt(_)
\* The cursor i before the k-th next_n call.
CursorAt(k) == IF k = 1 THEN 0 ELSE CursorAt(k - 1) + Advances[k - 1]

\* The k-th next_n: buf[i..i + 32] panics when the slice runs past the buffer.
ReadInBounds(b, k) == CursorAt(k) + ReadLen <= Len(b)
NextN(b, k) == Slice(b, CursorAt(k), ReadLen)

parse_vrf_proof(b) ==
    IF \E k \in 1..Len(Advances) : ~ReadInBounds(b, k) THEN Panic
    ELSE [alpha |-> NextN(b, 1),
          pk |-> <<FromBeBytes(NextN(b, 2)), FromBeBytes(NextN(b, 3))>>,
          gamma |-> <<FromBeBytes(NextN(b, 4)), FromBeBytes(NextN(b, 5))>>,
          c |-> FromBeBytes(NextN(b, 6)),
          s |-> FromBeBytes(NextN(b, 7)),
          uWitness |-> SubSeq(NextN(b, 8), 1, 20),
          cGammaWitness |-> <<FromBeBytes(NextN(b, 9)), FromBeBytes(NextN(b, 10))>>,
          sHashWitness |-> <<FromBeBytes(NextN(b, 11)), FromBeBytes(NextN(b, 12))>>,
          zInv |-> FromBeBytes(NextN(b, 13))]

----------------------------------------------------------------------------
(* Values shared by the generators and the pipeline *)

\* A buffer of the given length: byte j is a function of the seed and of j.
Pattern(seed, len) ==
    [j \in 1..len |-> IF seed = 0 THEN 255 ELSE (seed * j + (j \div 32) * 5) % 256]

\* The length the canonical layout has: 7 x 32 + 20 + 5 x 32.
ProofLen == 7 * 32 + 20 + 5 * 32

\* color_eyre::Result<T>: Ok(value), or a Report wrapping the error of the
\* operation that failed (`?` keeps the source error inside the Report).
Ok(v) == [ok |-> v]
Err(source, payload) == [err |-> source, payload |-> payload]
IsOk(r) == "ok" \in DOMAIN r
IsErr(r) == "err" \in DOMAIN r

\* u8 addition: a debug build (overflow checks on) panics on overflow, a
\* release build wraps.
U8Add(a, b, checks) ==
    IF a + b > 255 /\ checks THEN Panic ELSE [value |-> (a + b) % 256]

\* u64 addition, same two builds.
U64Add(a, b, checks) ==
    IF AddOverflows(a, b) /\ checks THEN Panic ELSE [value |-> WrappingAdd(a, b)]

----------------------------------------------------------------------------
(* SignedGenerator for T: HardwareInterface (lib.rs) *)

\* One loop iteration: a SignedQRN {number, hash, sig, v, proof} to a SignedNumber.
HwSignedNumber(q, wallet, checks) ==
    LET v27 == U8Add(q.v, 27, checks)
        proof_solidity == parse_vrf_proof(q.proof)
    IN IF Len(q.number) # 32 \/ Len(q.sig) # 64 \/ Len(q.hash) # 32 THEN Panic
       ELSE IF IsPanic(v27) \/ IsPanic(proof_solidity) THEN Panic
       ELSE [value |-> <<FromBeBytes(q.number),
                         q.hash,
                         [r |-> SubSeq(q.sig, 1, 32), s |-> SubSeq(q.sig, 33, 64),
                          v |-> v27.value, wallet |-> wallet],
                         proof_solidity>>]

\* get_signed over what self.get_qrn(amount, nonce) answered: an error, or the
\* tuples it chose to return (one output per tuple returned).
get_signed_hw(qrn, wallet, checks) ==
    IF IsErr(qrn) THEN qrn
    ELSE LET ret == [i \in 1..Len(qrn.ok) |-> HwSignedNumber(qrn.ok[i], wallet, checks)]
         IN IF \E i \in 1..Len(ret) : IsPanic(ret[i]) THEN Panic
            ELSE Ok([i \in 1..Len(ret) |-> ret[i].value])

----------------------------------------------------------------------------
(* OfflineGenerator (offline.rs) *)

\* keccak256: a digest that is a function of the message and of nothing else.
keccak256(message) == [keccak256 |-> message]

\* generate_number with the 32 bytes the rng drew.
generate_number(data, n) == <<data, keccak256(data \o ToBeBytes(n))>>

\* ethsign's SecretKey::sign under the fixed test key: r, s and a recovery id
\* of 0 or 1, all functions of the signed hash.
EthSign(hash) ==
    [r |-> <<"r", hash>>, s |-> <<"s", hash>>, v |-> hash.keccak256[1] % 2]

sign_data(random_data, wallet_address, checks) ==
    LET signature == EthSign(random_data)
        v27 == U8Add(signature.v, 27, checks)
    IN IF IsPanic(v27) THEN Panic
       ELSE [r |-> signature.r, s |-> signature.s, v |-> v27.value,
             wallet |-> wallet_address]

\* libecvrf's prove_contract under the fixed test key: besides alpha, twelve 32-byte
\* big-endian fields (b32()), functions of the input.
ProveContract(random_data) ==
    [f \in 1..12 |-> [j \in 1..32 |-> (random_data[j] + 17 * f + j) % 256]]

create_vrf_proof(random_data) ==
    LET proof == ProveContract(random_data)
    IN [alpha |-> random_data,
        pk |-> <<FromBeBytes(proof[1]), FromBeBytes(proof[2])>>,
        gamma |-> <<FromBeBytes(proof[3]), FromBeBytes(proof[4])>>,
        c |-> FromBeBytes(proof[5]),
        s |-> FromBeBytes(proof[6]),
        uWitness |-> SubSeq(proof[7], 1, 20),
        cGammaWitness |-> <<FromBeBytes(proof[8]), FromBeBytes(proof[9])>>,
        sHashWitness |-> <<FromBeBytes(proof[10]), FromBeBytes(proof[11])>>,
        zInv |-> FromBeBytes(proof[12])]

\* The loop body for index i (a u64), with the bytes the rng draws for it.
OfflineSignedNumber(i, n, address, drawn, checks) ==
    LET ni == U64Add(n, i, checks)
    IN IF IsPanic(ni) THEN Panic
       ELSE LET number == generate_number(drawn, ni.value)[1]
                hash == generate_number(drawn, ni.value)[2]
                signature_solidity == sign_data(hash, address, checks)
            IN IF IsPanic(signature_solidity) THEN Panic
               ELSE [value |-> <<FromBeBytes(number), hash, signature_solidity,
                                 create_vrf_proof(number)>>]

RECURSIVE OfflineLoop(_, _, _, _, _, _)
\* for i in 0..(amount as u64): i runs from `i` up to amount64, draws[k] is the
\* k-th value of the rng from here on.
OfflineLoop(i, amount64, n, address, draws, checks) ==
    IF ~Less(i, amount64) THEN <<>>
    ELSE <<OfflineSignedNumber(i, n, address, Head(draws), checks)>>
         \o OfflineLoop(WrappingAdd(i, FromNat(1, U64Limbs)), amount64, n, address,
                        Tail(draws), checks)

get_signed_offline(amount, n, address, draws, checks) ==
    LET res == OfflineLoop(FromNat(0, U64Limbs), Widen(amount, U64Limbs), n, address,
                           draws, checks)
    IN IF \E i \in 1..Len(res) : IsPanic(res[i]) THEN Panic
       ELSE Ok([i \in 1..Len(res) |-> res[i].value])

----------------------------------------------------------------------------
(* The decoder on its own: every bounded buffer is decoded once. *)

BufLens ==
    {0, 1, 31, 32, 33, 223, 224, 243, 244, 255, 256, 275, 276, 371, 372,
     ProofLen - 33, ProofLen - 32, ProofLen - 12, ProofLen - 2, ProofLen - 1,
     ProofLen, ProofLen + 1, ProofLen + 12, ProofLen + 32}


InitDecode ==
    /\ \E seed \in 0..MaxSeed, len \in BufLens : buf = Pattern(seed, len)
    /\ proof_out = None
    /\ pc = "Decode"
    /\ interface = "none"
    /\ stream = 0
    /\ log = NoLog
    /\ generation_left = FromNat(0, U256Limbs)
    /\ nonce = FromNat(0, U64Limbs)
    /\ signed_qrn_data = <<>>
    /\ calls = <<>>
    /\ receipt = None
    /\ result = None

\* One call parse_vrf_proof(&buf).
Decode ==
    /\ pc = "Decode"
    /\ proof_out' = parse_vrf_proof(buf)
    /\ pc' = IF IsPanic(proof_out') THEN "Panicked" ELSE "Decoded"
    /\ UNCHANGED <<interface, stream, log, generation_left, nonce, pipe_vars, buf>>

NextDecode == Decode

SpecDecode == InitDecode /\ [][NextDecode]_vars

----------------------------------------------------------------------------
(* What the outside world may answer *)

\* The controller's wallet (WALLET) and some other requester.
Wallet == "wallet"
OtherWallet == "other"

\* The value of a u32 whose upper limb is zero, as a number.
Small(x) == x[1]

\* 2^32 + k as a U256: a count that does not fit 32 bits.
Above32(k) == [j \in 1..U256Limbs |-> IF j = 1 THEN k ELSE IF j = 3 THEN 1 ELSE 0]

\* The largest u64 minus k.
U64Top(k) == [j \in 1..U64Limbs |-> IF j = 1 THEN LimbBase - 1 - k ELSE LimbBase - 1]

\* The k-th raw tuple of an answer of the hardware, with the recovery byte and
\* the proof length the hardware chose.
SignedQRN(k, v, plen) ==
    [number |-> Pattern(k + 1, 32), hash |-> Pattern(k + 2, 32),
     sig |-> Pattern(k + 3, 64), v |-> v, proof |-> Pattern(k + 1, plen)]

\* Recovery bytes the hardware may deliver: the two ids, and bytes that are not ids.
RecoveryIds == {0, 1}
OtherRecoveryBytes == {2, 229}

\* m tuples, all with the same recovery byte and proof length.
QrnTuples(m, v, plen) == Ok([k \in 1..m |-> SignedQRN(k, v, plen)])

\* get_qrn(amount, nonce) is outside the repository.  It fails; or it returns
\* the tuples asked for; or one tuple fewer; or tuples whose recovery byte is
\* no recovery id; or tuples whose proof is one byte short.
QrnAnswers(amount) ==
    {Err("get_qrn", None)}
    \cup {QrnTuples(Small(amount), v, ProofLen) : v \in RecoveryIds}
    \cup (IF Small(amount) > 0 THEN {QrnTuples(Small(amount) - 1, 0, ProofLen)} ELSE {})
    \cup {QrnTuples(Small(amount), v, ProofLen) : v \in OtherRecoveryBytes}
    \cup {QrnTuples(Small(amount), 1, ProofLen - 1)}

\* The values the thread rng yields, in order.
Draws(seed, n) == [k \in 1..n |-> Pattern(seed + k, 32)]

\* Hashes the chain may give a transaction.
TxHashes == {"0xa1", "0xb2"}

\* What the node answers to debug_traceTransaction for a hash.
NodeTrace(tx_hash) == [structLogs |-> tx_hash]

\* What getNonce may return.
ChainNonces == {FromNat(0, U64Limbs), U64Top(1)}

----------------------------------------------------------------------------
(* send_random_number (lib.rs).  Its arguments generation_left and nonce    *)
(* are the caller's variables of the same names, passed by value and not    *)
(* written during the call.                                                 *)

\* rng.get_signed(gen_left, nonce, wallet_address): every outcome it can have.
GetSignedOutcomes ==
    LET gen_left == LowLimbAsU32(generation_left)
    IN IF interface = "Tcp"
       THEN {get_signed_hw(q, Wallet, checks) :
               q \in QrnAnswers(gen_left), checks \in BOOLEAN}
       ELSE {get_signed_offline(gen_left, nonce, Wallet,
                                Draws(seed, Small(gen_left)), checks) :
               seed \in 0..MaxSeed, checks \in BOOLEAN}

\* The generator's error noted, and the submission made all the same, with no items.
CallGetSigned_SubmitsOnError ==
    /\ pc = "GetSigned"
    /\ \E r \in GetSignedOutcomes :
         IF IsPanic(r)
         THEN /\ pc' = "Panicked"
              /\ stream' = 0
              /\ UNCHANGED <<signed_qrn_data, result>>
         ELSE /\ pc' = "Dispatch"
              /\ signed_qrn_data' = IF IsErr(r) THEN <<>> ELSE r.ok
              /\ result' = IF IsErr(r) THEN r ELSE result
              /\ UNCHANGED stream
    /\ UNCHANGED <<interface, log, generation_left, nonce, calls, receipt, codec_vars>>

\* Lines 96-97: narrow the amount, call the generator, `?`.
CallGetSigned ==
    /\ pc = "GetSigned"
    /\ \E r \in GetSignedOutcomes :
         IF IsPanic(r)
         THEN /\ pc' = "Panicked"
              /\ stream' = 0
              /\ UNCHANGED <<signed_qrn_data, result>>
         ELSE IF IsErr(r)
         THEN /\ pc' = "Returned"
              /\ result' = r
              /\ UNCHANGED <<signed_qrn_data, stream>>
         ELSE /\ pc' = "Dispatch"
              /\ signed_qrn_data' = r.ok
              /\ UNCHANGED <<result, stream>>
    /\ UNCHANGED <<interface, log, generation_left, nonce, calls, receipt, codec_vars>>

\* The i-th components of the items: data, hashes, signatures, proofs (lines 98-103).
Column(items, c) == [i \in 1..Len(items) |-> items[i][c]]

\* Lines 104-116: the call the pipeline builds; data[0] panics on an empty vector.
SubmissionCall ==
    LET data == Column(signed_qrn_data, 1)
        hashes == Column(signed_qrn_data, 2)
        signatures == Column(signed_qrn_data, 3)
        proofs == Column(signed_qrn_data, 4)
    IN IF generation_left # FromNat(1, U256Limbs)
       THEN [op |-> "addRandomNumbers", data |-> data, signatures |-> signatures,
             hashes |-> hashes, proofs |-> proofs, from |-> Wallet]
       ELSE IF Len(data) = 0 THEN Panic
       ELSE [op |-> "addRandomNumber", data |-> data[1], signatures |-> signatures[1],
             hashes |-> hashes[1], proofs |-> proofs[1], from |-> Wallet]

\* Lines 98-116: the for loop consumes signed_qrn_data into the four vectors,
\* which are moved into the call; then send().await?.
Dispatch ==
    /\ pc = "Dispatch"
    /\ IF IsPanic(SubmissionCall)
       THEN /\ pc' = "Panicked"
            /\ stream' = 0
            /\ UNCHANGED <<calls, result>>
       ELSE /\ calls' = Append(calls, SubmissionCall)
            /\ \E sent \in BOOLEAN :
                 IF sent
                 THEN pc' = "GetReceipt" /\ UNCHANGED result
                 ELSE pc' = "Returned" /\ result' = Err("send", None)
            /\ UNCHANGED stream
    /\ signed_qrn_data' = <<>>
    /\ UNCHANGED <<interface, log, generation_left, nonce, receipt, codec_vars>>

\* The trace asked for one fixed hash.
TraceKey_Fixed == "0xa1"

\* The hash the trace is asked for (line 124).
TraceKey == receipt.transaction_hash

\* The error built from the trace (line 129).
RevertError(trace) == Err("Revert reason", trace)

\* A missing receipt reported as a revert.
ReceiptError_AsRevert == RevertError(None)

\* Line 118: what `?` returns when get_receipt() fails.
ReceiptError == Err("get_receipt", None)

\* Lines 118-123: get_receipt().await?, then the status.
GetReceipt ==
    /\ pc = "GetReceipt"
    /\ \/ /\ pc' = "Returned"
          /\ result' = ReceiptError
          /\ UNCHANGED receipt
       \/ \E h \in TxHashes, status \in BOOLEAN :
            /\ receipt' = [status |-> status, transaction_hash |-> h]
            /\ IF status
               THEN pc' = "Returned" /\ result' = Ok(None)
               ELSE pc' = "TraceLookup" /\ UNCHANGED result
    /\ UNCHANGED <<interface, stream, log, generation_left, nonce,
                   signed_qrn_data, calls, codec_vars>>

\* Lines 124-129: the trace request, `?`, and the error made of the trace.
TraceLookup ==
    /\ pc = "TraceLookup"
    /\ \E answer \in {Ok(NodeTrace(TraceKey)), Err("raw_request", None)} :
         /\ calls' = Append(calls, [op |-> "debug_traceTransaction",
                                      params |-> <<TraceKey>>, answer |-> answer])
         /\ result' = IF IsOk(answer) THEN RevertError(answer.ok) ELSE answer
    /\ pc' = "Returned"
    /\ UNCHANGED <<interface, stream, log, generation_left, nonce,
                   signed_qrn_data, receipt, codec_vars>>

Pipeline == CallGetSigned \/ Dispatch \/ GetReceipt \/ TraceLookup

----------------------------------------------------------------------------
(* The pipeline on its own: send_random_number called once with bounded     *)
(* arguments.                                                               *)

PipelineAmounts ==
    {FromNat(k, U256Limbs) : k \in 0..MaxAmount} \cup {Above32(k) : k \in 0..MaxAmount}

PipelineNonces == ChainNonces \cup {FromNat(7, U64Limbs), U64Top(0)}

InitPipeline ==
    /\ pc = "GetSigned"
    /\ interface \in {"Tcp", "OfflineGenerator"}
    /\ generation_left \in PipelineAmounts
    /\ nonce \in PipelineNonces
    /\ stream = 0
    /\ log = NoLog
    /\ signed_qrn_data = <<>>
    /\ calls = <<>>
    /\ receipt = None
    /\ result = None
    /\ buf = <<>>
    /\ proof_out = None

NextPipeline == Pipeline

SpecPipeline == InitPipeline /\ [][NextPipeline]_vars

----------------------------------------------------------------------------
(* main (main.rs): startup and the accumulator loop *)

\* The threshold of line 93.
THRESHOLD == 5

\* Logs of the two subscribed event shapes, and a log that decodes as neither.
AskElements(qrng) == [event |-> "AskElements", qrng |-> qrng]
GenerationLeft(qrng, number) ==
    [event |-> "GenerationLeft", qrng |-> qrng, number |-> number]
UndecodableLog == [event |-> "undecodable"]

\* The numbers a GenerationLeft log may carry.
Numbers ==
    {FromNat(0, U256Limbs), FromNat(3, U256Limbs), FromNat(7, U256Limbs), Above32(1)}

Logs ==
    {AskElements(Wallet), AskElements(OtherWallet), UndecodableLog}
    \cup {GenerationLeft(Wallet, n) : n \in Numbers}
    \cup {GenerationLeft(OtherWallet, n) : n \in Numbers}

\* A snapshot added to the count instead of replacing it.
Accumulate_Additive(count, l) ==
    IF l.event = "AskElements"
    THEN IF l.qrng = Wallet
         THEN WrappingAdd(count, FromNat(1, U256Limbs))
         ELSE count
    ELSE IF l.event = "GenerationLeft"
    THEN IF l.qrng = Wallet /\ l.number # FromNat(0, U256Limbs)
         THEN WrappingAdd(count, l.number)
         ELSE count
    ELSE count

\* The requester of a log not compared with the wallet.
Accumulate_NoFilter(count, l) ==
    IF l.event = "AskElements"
    THEN WrappingAdd(count, FromNat(1, U256Limbs))
    ELSE IF l.event = "GenerationLeft"
    THEN IF l.number # FromNat(0, U256Limbs) THEN l.number ELSE count
    ELSE count

\* A snapshot that can raise the count and never lower it.
Accumulate_Monotone(count, l) ==
    IF l.event = "AskElements"
    THEN IF l.qrng = Wallet
         THEN WrappingAdd(count, FromNat(1, U256Limbs))
         ELSE count
    ELSE IF l.event = "GenerationLeft"
    THEN IF l.qrng = Wallet /\ Less(count, l.number)
         THEN l.number
         ELSE count
    ELSE count

\* Lines 80-90: the count after one log.  (U256 `+=`; the count is below
\* THRESHOLD whenever a log is applied, far from the top of the range.)
Accumulate(count, l) ==
    IF l.event = "AskElements"
    THEN IF l.qrng = Wallet
         THEN WrappingAdd(count, FromNat(1, U256Limbs))
         ELSE count
    ELSE IF l.event = "GenerationLeft"
    THEN IF l.qrng = Wallet /\ l.number # FromNat(0, U256Limbs)
         THEN l.number
         ELSE count
    ELSE count

\* The threshold compared with > instead of >=.
ReachedThreshold_Strict(count) == Less(FromNat(THRESHOLD, U256Limbs), count)

\* Any outstanding request submitted at once: a threshold of 1.
ReachedThreshold_One(count) == GreaterEq(count, FromNat(1, U256Limbs))

\* Line 93.
ReachedThreshold(count) == GreaterEq(count, FromNat(THRESHOLD, U256Limbs))

\* The chain emits a log; the subscription, once made, queues it for the loop.
\* What the log holds is the chain's choice, and the loop first sees it when
\* stream.next() yields it.
ChainEmitsLog ==
    /\ pc \notin {"Subscribe", "Exited", "Panicked"}
    /\ stream < MaxQueue
    /\ stream' = stream + 1
    /\ UNCHANGED <<pc, interface, log, generation_left, nonce, pipe_vars, codec_vars>>

\* Lines 69-70: subscribe_logs(&filter).await?.
Subscribe ==
    /\ pc = "Subscribe"
    /\ \/ pc' = "EmitCapacity" /\ UNCHANGED result
       \/ pc' = "Exited" /\ result' = Err("subscribe_logs", None)
    /\ UNCHANGED <<interface, stream, log, generation_left, nonce,
                   signed_qrn_data, calls, receipt, codec_vars>>

\* Line 73: emitGenerationCapacity(wallet_address).send().await?.
EmitCapacity ==
    /\ pc = "EmitCapacity"
    /\ \/ pc' = "InitNonce" /\ UNCHANGED result
       \/ pc' = "Exited" /\ result' = Err("emitGenerationCapacity", None)
    /\ stream' = IF pc' = "Exited" THEN 0 ELSE stream
    /\ UNCHANGED <<interface, log, generation_left, nonce, signed_qrn_data, calls,
                   receipt, codec_vars>>

\* Lines 74-76: the first getNonce(wallet_address).call().await?, and the count at zero.
InitNonce ==
    /\ pc = "InitNonce"
    /\ \/ /\ \E n \in ChainNonces : nonce' = n
          /\ generation_left' = FromNat(0, U256Limbs)
          /\ pc' = "Idle"
          /\ UNCHANGED result
       \/ /\ pc' = "Exited"
          /\ result' = Err("getNonce", None)
          /\ UNCHANGED <<nonce, generation_left>>
    /\ stream' = IF pc' = "Exited" THEN 0 ELSE stream
    /\ UNCHANGED <<interface, log, signed_qrn_data, calls, receipt, codec_vars>>

\* Logs taken from the stream while the receipt of a submission is awaited too.
ProcessEvent_Concurrent ==
    /\ pc \in {"Idle", "GetReceipt"}
    /\ stream > 0
    /\ log' \in Logs
    /\ stream' = stream - 1
    /\ generation_left' = Accumulate(generation_left, log')
    /\ pc' = IF pc # "Idle" THEN pc
             ELSE IF ReachedThreshold(generation_left') THEN "GetSigned" ELSE "Idle"
    /\ UNCHANGED <<interface, nonce, pipe_vars, codec_vars>>

\* Lines 77-100: stream.next() yields a log, the count is updated, and the
\* pipeline is entered if the count has reached the threshold.
ProcessEvent ==
    /\ pc = "Idle"
    /\ stream > 0
    /\ log' \in Logs
    /\ stream' = stream - 1
    /\ generation_left' = Accumulate(generation_left, log')
    /\ pc' = IF ReachedThreshold(generation_left') THEN "GetSigned" ELSE "Idle"
    /\ UNCHANGED <<interface, nonce, pipe_vars, codec_vars>>

\* A failed submission dropped: the loop goes on as after a success.
SubmissionReturned_Swallow ==
    /\ pc = "Returned"
    /\ pc' = "RefreshNonce"
    /\ generation_left' = FromNat(0, U256Limbs)
    /\ result' = None
    /\ signed_qrn_data' = <<>>
    /\ calls' = <<>>
    /\ receipt' = None
    /\ UNCHANGED <<interface, stream, log, nonce, codec_vars>>

\* A successful submission not followed by the reset of the count.
SubmissionReturned_NoReset ==
    /\ pc = "Returned"
    /\ IF IsErr(result)
       THEN /\ pc' = "Exited"
            /\ stream' = 0
            /\ UNCHANGED result
       ELSE /\ pc' = "RefreshNonce"
            /\ result' = None
            /\ UNCHANGED stream
    /\ signed_qrn_data' = <<>>
    /\ calls' = <<>>
    /\ receipt' = None
    /\ UNCHANGED <<interface, log, generation_left, nonce, codec_vars>>

\* Lines 101-102: `.await?` on what the pipeline returned, then the reset.  The
\* pipeline's locals are gone when it has returned; the subscription goes with
\* the process when main returns.
SubmissionReturned ==
    /\ pc = "Returned"
    /\ IF IsErr(result)
       THEN /\ pc' = "Exited"
            /\ stream' = 0
            /\ UNCHANGED <<generation_left, result>>
       ELSE /\ pc' = "RefreshNonce"
            /\ generation_left' = FromNat(0, U256Limbs)
            /\ result' = None
            /\ UNCHANGED stream
    /\ signed_qrn_data' = <<>>
    /\ calls' = <<>>
    /\ receipt' = None
    /\ UNCHANGED <<interface, log, nonce, codec_vars>>

\* The nonce advanced locally after a submission instead of read from the chain.
RefreshNonce_LocalIncrement ==
    /\ pc = "RefreshNonce"
    /\ nonce' = WrappingAdd(nonce, FromNat(1, U64Limbs))
    /\ pc' = "Idle"
    /\ UNCHANGED <<interface, stream, log, generation_left, pipe_vars, codec_vars>>

\* Line 103: getNonce(wallet_address).call().await?.
RefreshNonce ==
    /\ pc = "RefreshNonce"
    /\ \/ /\ \E n \in ChainNonces : nonce' = n
          /\ pc' = "Idle"
          /\ UNCHANGED result
       \/ /\ pc' = "Exited"
          /\ result' = Err("getNonce", None)
          /\ UNCHANGED nonce
    /\ stream' = IF pc' = "Exited" THEN 0 ELSE stream
    /\ UNCHANGED <<interface, log, generation_left, signed_qrn_data, calls, receipt,
                   codec_vars>>

\* Lines 77 and 106: the stream ends (the subscription is gone) and main returns Ok.
StreamClosed ==
    /\ pc = "Idle"
    /\ stream = 0
    /\ pc' = "Exited"
    /\ result' = Ok(None)
    /\ UNCHANGED <<interface, stream, log, generation_left, nonce,
                   signed_qrn_data, calls, receipt, codec_vars>>

\* The capacity request made first, with no subscription yet.
Init_CapacityFirst ==
    /\ pc = "EmitCapacity"
    /\ interface \in {"Tcp", "OfflineGenerator"}
    /\ stream = 0
    /\ log = NoLog
    /\ generation_left = FromNat(0, U256Limbs)
    /\ nonce = FromNat(0, U64Limbs)
    /\ signed_qrn_data = <<>>
    /\ calls = <<>>
    /\ receipt = None
    /\ result = None
    /\ buf = <<>>
    /\ proof_out = None

Init ==
    /\ pc = "Subscribe"
    /\ interface \in {"Tcp", "OfflineGenerator"}
    /\ stream = 0
    /\ log = NoLog
    /\ generation_left = FromNat(0, U256Limbs)
    /\ nonce = FromNat(0, U64Limbs)
    /\ signed_qrn_data = <<>>
    /\ calls = <<>>
    /\ receipt = None
    /\ result = None
    /\ buf = <<>>
    /\ proof_out = None

Next ==
    \/ ChainEmitsLog
    \/ Subscribe
    \/ EmitCapacity
    \/ InitNonce
    \/ ProcessEvent
    \/ Pipeline
    \/ SubmissionReturned
    \/ RefreshNonce
    \/ StreamClosed

Spec == Init /\ [][Next]_vars

----------------------------------------------------------------------------
(* Properties of the decoder, checked under SpecDecode *)

\* The canonical layout of a Proof: every field in order, big-endian, no padding.
Serialize(p) ==
    p.alpha \o ToBeBytes(p.pk[1]) \o ToBeBytes(p.pk[2])
    \o ToBeBytes(p.gamma[1]) \o ToBeBytes(p.gamma[2])
    \o ToBeBytes(p.c) \o ToBeBytes(p.s)
    \o p.uWitness
    \o ToBeBytes(p.cGammaWitness[1]) \o ToBeBytes(p.cGammaWitness[2])
    \o ToBeBytes(p.sHashWitness[1]) \o ToBeBytes(p.sHashWitness[2])
    \o ToBeBytes(p.zInv)

\* C7: every buffer shorter than 404 bytes makes the decoder return the
\* recoverable error BufferTooShort to its caller, and never panic.
C7_ShortBufferIsRecoverableError ==
    (pc # "Decode" /\ Len(buf) < ProofLen)
        => (pc # "Panicked" /\ proof_out = Err("BufferTooShort", None))

\* C8: for every 404-byte buffer the decoder returns a Proof, and writing that
\* Proof out in the canonical layout gives the buffer back byte for byte.
C8_DecodeRoundTrip ==
    (pc # "Decode" /\ Len(buf) = ProofLen)
        => (~IsPanic(proof_out) /\ Serialize(proof_out) = buf)

\* A 404-byte buffer of varied bytes has been decoded.
C8_Witness ==
    /\ pc = "Decoded"
    /\ Len(buf) = ProofLen
    /\ buf[1] # buf[2]
    /\ proof_out.uWitness = Slice(buf, 224, 20)

----------------------------------------------------------------------------
(* Properties of the pipeline and of the generators, checked under SpecPipeline *)

\* The trace lookups the invocation has issued.
TraceCalls == SelectSeq(calls, LAMBDA call : call.op = "debug_traceTransaction")

\* C4: every invocation with amount N issues exactly one submission call: for
\* N = 1 the single-item call with the four components of the one item,
\* otherwise the batch call with four arrays of length N whose i-th entries
\* are those of the i-th generated item.
C4_DispatchShape ==
    [][pc = "Dispatch" =>
         LET items == signed_qrn_data
         IN /\ pc' # "Panicked"
            /\ Len(calls') = 1
            /\ IF generation_left = FromNat(1, U256Limbs)
               THEN /\ Len(items) >= 1
                    /\ calls'[1] = [op |-> "addRandomNumber", data |-> items[1][1],
                                    signatures |-> items[1][3], hashes |-> items[1][2],
                                    proofs |-> items[1][4], from |-> Wallet]
               ELSE /\ calls'[1].op = "addRandomNumbers"
                    /\ \A arr \in {calls'[1].data, calls'[1].signatures,
                                   calls'[1].hashes, calls'[1].proofs} :
                         FromNat(Len(arr), U256Limbs) = generation_left
                    /\ Len(calls'[1].data) = Len(items)
                    /\ \A i \in 1..Len(items) :
                         /\ calls'[1].data[i] = items[i][1]
                         /\ calls'[1].hashes[i] = items[i][2]
                         /\ calls'[1].signatures[i] = items[i][3]
                         /\ calls'[1].proofs[i] = items[i][4]]_vars

\* C5 as stated: after a receipt with failure status the pipeline has issued
\* exactly one trace lookup, keyed by the receipt's transaction hash, and
\* returns an error holding the trace of that transaction; after a receipt with
\* success status it has issued none and returns success.
C5_RevertAlwaysCarriesTrace ==
    (pc = "Returned" /\ "status" \in DOMAIN receipt) =>
        IF receipt.status
        THEN TraceCalls = <<>> /\ IsOk(result)
        ELSE /\ Len(TraceCalls) = 1
             /\ TraceCalls[1].params = <<receipt.transaction_hash>>
             /\ IsErr(result)
             /\ result.payload = NodeTrace(receipt.transaction_hash)

\* C5 as amended: after a receipt with failure status the pipeline has issued
\* exactly one trace lookup, keyed by the receipt's transaction hash, and
\* returns an error: the revert error holding the trace when the lookup
\* answered, the lookup's own error when the lookup failed.  After a receipt
\* with success status it has issued none and returns success.
C5_RevertDiagnosis ==
    (pc = "Returned" /\ "status" \in DOMAIN receipt) =>
        IF receipt.status
        THEN TraceCalls = <<>> /\ IsOk(result)
        ELSE /\ Len(TraceCalls) = 1
             /\ TraceCalls[1].params = <<receipt.transaction_hash>>
             /\ IsErr(result)
             /\ IF IsOk(TraceCalls[1].answer)
                THEN result = RevertError(TraceCalls[1].answer.ok)
                ELSE result = TraceCalls[1].answer /\ result.payload = None

\* The transaction reverted, its trace was fetched under its own hash, and the
\* error returned holds that trace.
C5_Witness ==
    /\ pc = "Returned"
    /\ "status" \in DOMAIN receipt
    /\ ~receipt.status
    /\ receipt.transaction_hash = "0xb2"
    /\ result = RevertError(NodeTrace("0xb2"))

C9_SignatureNormalized ==
    pc = "Dispatch" =>
        \A i \in 1..Len(signed_qrn_data) :
            /\ signed_qrn_data[i][3].v \in {27, 28}
            /\ signed_qrn_data[i][3].wallet = Wallet

\* C10: a successful get_signed(amount, nonce, wallet) returns exactly amount
\* items, and the i-th item of the offline generator has
\* hash = keccak256(value ++ 8-byte big-endian(nonce + i)), the sum not overflowing.
C10_LengthAndOrder ==
    pc = "Dispatch" =>
        /\ Len(signed_qrn_data) = Small(LowLimbAsU32(generation_left))
        /\ interface = "OfflineGenerator" =>
             \A i \in 1..Len(signed_qrn_data) :
                 LET index == FromNat(i - 1, U64Limbs)
                 IN /\ ~AddOverflows(nonce, index)
                    /\ signed_qrn_data[i][2] =
                         keccak256(ToBeBytes(signed_qrn_data[i][1])
                                   \o ToBeBytes(WrappingAdd(nonce, index)))

----------------------------------------------------------------------------
(* Properties of the accumulator loop, checked under Spec *)

\* The step in which stream.next() yields a log and the loop processes it.
ConsumesLog == pc = "Idle" /\ stream' = stream - 1

\* A log the loop has no use for: not decodable, or of another requester.
Ignored(l) ==
    \/ l.event = "undecodable"
    \/ l.event \in {"AskElements", "GenerationLeft"} /\ l.qrng # Wallet

\* C1: a log that takes the count from below 5 to exactly 5 invokes the
\* pipeline, with N = 5 and the nonce the loop holds; the pipeline is entered
\* by nothing but a processed log that leaves the count at 5 or more (so once
\* per trigger, never again from inside a submission or from the logs already
\* consumed); and a successful submission leaves the count at 0.
C1_ThresholdTrigger ==
    [][/\ (ConsumesLog /\ Less(generation_left, FromNat(5, U256Limbs))
                       /\ generation_left' = FromNat(5, U256Limbs))
            => /\ pc' = "GetSigned"
               /\ nonce' = nonce
               /\ LowLimbAsU32(generation_left') = FromNat(5, U32Limbs)
       /\ (pc' = "GetSigned" /\ pc # "GetSigned")
            => ConsumesLog /\ GreaterEq(generation_left', FromNat(5, U256Limbs))
       /\ (pc = "Returned" /\ IsOk(result) /\ pc' # pc)
            => pc' = "RefreshNonce" /\ IsZero(generation_left')
       /\ pc' \in {"RefreshNonce", "Idle"}
            => Less(generation_left', FromNat(5, U256Limbs))]_vars

\* The fifth request arrived, the pipeline ran with it and succeeded, and the
\* count is back at 0.
C1_Witness ==
    /\ pc = "RefreshNonce"
    /\ log = AskElements(Wallet)
    /\ IsZero(generation_left)

\* C2 as stated: a request of the wallet adds one to the count (three of them
\* from 0 give 3); a snapshot of the wallet with number 7 makes the count 7,
\* not 10; and a snapshot with number 0 processed next finds and leaves the
\* count at 7.
C2_SnapshotSevenThenZeroKeepsSeven ==
    [][ConsumesLog =>
         /\ log' = AskElements(Wallet)
              => generation_left' = WrappingAdd(generation_left, FromNat(1, U256Limbs))
         /\ log' = GenerationLeft(Wallet, FromNat(7, U256Limbs))
              => generation_left' = FromNat(7, U256Limbs)
         /\ (/\ log = GenerationLeft(Wallet, FromNat(7, U256Limbs))
             /\ log' = GenerationLeft(Wallet, FromNat(0, U256Limbs)))
              => generation_left' = FromNat(7, U256Limbs)]_vars

\* C2 as amended: a request of the wallet adds one to the count; a snapshot of
\* the wallet with number 7 makes the count 7, not 10, which reaches the
\* threshold and starts a submission of 7; the log processed after that
\* snapshot finds the count at 0, the submission having reset it; and a
\* snapshot with number 0 leaves the count as it found it.
C2_SnapshotOverwrites ==
    [][ConsumesLog =>
         /\ log' = AskElements(Wallet)
              => generation_left' = WrappingAdd(generation_left, FromNat(1, U256Limbs))
         /\ log' = GenerationLeft(Wallet, FromNat(7, U256Limbs))
              => generation_left' = FromNat(7, U256Limbs) /\ pc' = "GetSigned"
         /\ log = GenerationLeft(Wallet, FromNat(7, U256Limbs))
              => IsZero(generation_left)
         /\ log' = GenerationLeft(Wallet, FromNat(0, U256Limbs))
              => generation_left' = generation_left]_vars

\* The snapshot with number 7 was processed, its submission is over, and the
\* next log waits to be processed with the count at 0.
C2_Witness ==
    /\ pc = "Idle"
    /\ log = GenerationLeft(Wallet, FromNat(7, U256Limbs))
    /\ stream > 0
    /\ IsZero(generation_left)

\* C3: processing a log of another requester, whatever its kind and number,
\* or a log of neither shape, leaves the count and the nonce as they were and
\* starts no submission.
C3_RequesterFiltering ==
    [][(ConsumesLog /\ Ignored(log'))
         => /\ generation_left' = generation_left
            /\ nonce' = nonce
            /\ pc' = "Idle"]_vars

\* A snapshot of another requester with number 7 was processed at count 3:
\* the count is still 3 and the loop waits for the next log.
C3_Witness ==
    /\ pc = "Idle"
    /\ log = GenerationLeft(OtherWallet, FromNat(7, U256Limbs))
    /\ generation_left = FromNat(3, U256Limbs)

\* A submission is in flight: the pipeline has been invoked and the nonce
\* refresh that follows it has not finished.
Submitting ==
    pc \in {"GetSigned", "Dispatch", "GetReceipt", "TraceLookup", "Returned",
            "RefreshNonce"}

\* The process has ended: main returned, or a panic unwound it.
Ended == pc \in {"Exited", "Panicked"}

C12_SuccessCompletesCycle ==
    [][/\ (pc = "Returned" /\ IsOk(result) /\ pc' # pc)
            => /\ pc' = "RefreshNonce"
               /\ IsZero(generation_left')
               /\ log' = log /\ stream' = stream
       /\ (pc = "RefreshNonce" /\ pc' # pc)
            => \/ pc' = "Idle" /\ nonce' \in ChainNonces /\ IsZero(generation_left')
               \/ pc' = "Exited" /\ IsErr(result')
       /\ nonce' # nonce
            => pc \in {"InitNonce", "RefreshNonce"} /\ nonce' \in ChainNonces
       /\ (pc' = "Idle" /\ pc # "Idle") => pc \in {"InitNonce", "RefreshNonce"}
       /\ pc = "GetSigned" => nonce \in ChainNonces
       /\ ConsumesLog => nonce' = nonce]_vars

\* A submission of 7 succeeded, the count is 0, the nonce was read from the
\* chain, and the loop waits for the next log.
C12_Witness ==
    /\ pc = "Idle"
    /\ log = GenerationLeft(Wallet, FromNat(7, U256Limbs))
    /\ IsZero(generation_left)
    /\ nonce = U64Top(1)
    /\ result = None

\* The errors a pipeline invocation returns: of the generator, of the send, of
\* the receipt, of the trace request, and the revert.
PipelineErrors == {"get_qrn", "send", "get_receipt", "raw_request", "Revert reason"}

\* C13: when a pipeline invocation has returned an error, main returns that
\* same error: the count is not reset, the nonce is not read again, the
\* pipeline is not invoked again; and once main has returned nothing happens
\* any more: no log is processed and no submission is issued.
C13_FailureIsFatal ==
    [][/\ (pc = "Returned" /\ IsErr(result))
            => /\ result.err \in PipelineErrors
               /\ pc' \in {"Returned", "Exited"}
               /\ pc' = "Returned" => stream' > stream
               /\ result' = result
               /\ generation_left' = generation_left
               /\ nonce' = nonce
               /\ log' = log
       /\ Ended => UNCHANGED vars]_vars

\* The transaction of a submission of 7 reverted and main has returned the
\* revert error; the count is still 7.
C13_Witness ==
    /\ pc = "Exited"
    /\ IsErr(result)
    /\ result.err = "Revert reason"
    /\ generation_left = FromNat(7, U256Limbs)

\* C14: for a log of the wallet processed at count k: a request makes the
\* count k + 1 (no wrap-around); a snapshot with a number other than 0 makes
\* the count that number whatever k is, lowering it when the number is
\* smaller; a snapshot with number 0 leaves the count at k.  The threshold is
\* then tested on the new count.
C14_TransitionRules ==
    [][(ConsumesLog /\ log'.event \in {"AskElements", "GenerationLeft"}
                    /\ log'.qrng = Wallet)
         => /\ log'.event = "AskElements"
                 => /\ ~AddOverflows(generation_left, FromNat(1, U256Limbs))
                    /\ generation_left'
                         = WrappingAdd(generation_left, FromNat(1, U256Limbs))
            /\ log'.event = "GenerationLeft"
                 => generation_left' = IF IsZero(log'.number) THEN generation_left
                                       ELSE log'.number
            /\ (log'.event = "GenerationLeft" /\ ~IsZero(log'.number)
                   /\ Less(log'.number, generation_left))
                 => Less(generation_left', generation_left)
            /\ pc' = IF Less(generation_left', FromNat(5, U256Limbs))
                     THEN "Idle" ELSE "GetSigned"]_vars

\* A snapshot with number 3 was processed and the count is 3, with a further
\* log waiting.
C14_Witness ==
    /\ pc = "Idle"
    /\ log = GenerationLeft(Wallet, FromNat(3, U256Limbs))
    /\ generation_left = FromNat(3, U256Limbs)
    /\ stream > 0

\* C15: the amount N the loop hands to the pipeline reaches the generator as
\* it is (narrowing it to 32 bits and widening it again gives N back), and
\* the batch call carries four arrays of length exactly N.
C15_AmountPreserved ==
    [][/\ pc = "GetSigned"
            => Widen(LowLimbAsU32(generation_left), U256Limbs) = generation_left
       /\ (pc = "Dispatch" /\ pc' # "Panicked" /\ interface = "OfflineGenerator")
            => LET call == calls'[Len(calls')]
               IN \A arr \in {call.data, call.signatures, call.hashes, call.proofs} :
                    FromNat(Len(arr), U256Limbs) = generation_left]_vars

SubmissionCalls ==
    SelectSeq(calls, LAMBDA call : call.op \in {"addRandomNumber", "addRandomNumbers"})

\* C17: when get_signed fails the pipeline returns that error at once: no
\* item is kept, no submission call is made, no receipt is awaited and no
\* trace is asked for; a submission call is made only by the step that
\* follows a successful get_signed of the same invocation.
C17_NoSubmissionOnGenerationFailure ==
    [][/\ (pc = "GetSigned" /\ pc' = "Returned")
            => /\ IsErr(result') /\ result'.err = "get_qrn"
               /\ signed_qrn_data' = <<>>
               /\ calls' = <<>>
               /\ receipt' = None
       /\ (pc = "GetSigned" /\ pc' = "Dispatch")
            => calls' = <<>> /\ result' = None
       /\ pc' = "Dispatch" => pc \in {"GetSigned", "Dispatch"}
       /\ Len(SubmissionCalls') > Len(SubmissionCalls) => pc = "Dispatch"
       /\ (IsErr(result') /\ result'.err = "get_qrn")
            => calls' = <<>> /\ receipt' = None /\ pc' \in {"Returned", "Exited"}]_vars

\* The hardware failed to deliver, and the pipeline has returned its error
\* without having called the chain.
C17_Witness ==
    /\ pc = "Returned"
    /\ result = Err("get_qrn", None)
    /\ interface = "Tcp"
    /\ calls = <<>>
    /\ receipt = None

\* C18: whenever the loop waits for the next log the count is below 5; a
\* count of 5 or more is there only while the submission it started is in
\* flight and its success has not reset the count yet, or after the process
\* has ended with the error of that submission (or its panic).
C18_IdleCountBelowThreshold ==
    /\ pc = "Idle" => Less(generation_left, FromNat(5, U256Limbs))
    /\ GreaterEq(generation_left, FromNat(5, U256Limbs))
         => \/ pc \in {"GetSigned", "Dispatch", "GetReceipt", "TraceLookup", "Returned"}
            \/ pc = "Exited" /\ IsErr(result) /\ result.err \in PipelineErrors
            \/ pc = "Panicked"

\* Four requests of the wallet are outstanding and the loop waits for a log.
C18_Witness ==
    /\ pc = "Idle"
    /\ log = AskElements(Wallet)
    /\ generation_left = FromNat(4, U256Limbs)
    /\ stream > 0

\* C19: every pipeline invocation the loop makes has N >= 5, N being the
\* count at that moment, unchanged for the whole invocation; so the call the
\* loop issues is always the batch call, never the single-item call.
C19_LoopSubmitsBatchesOnly ==
    [][/\ pc' \in {"GetSigned", "Dispatch", "GetReceipt", "TraceLookup"}
            => /\ GreaterEq(generation_left', FromNat(5, U256Limbs))
               /\ generation_left' # FromNat(1, U256Limbs)
       /\ (pc \in {"GetSigned", "Dispatch", "GetReceipt", "TraceLookup"}
              /\ pc' # "Panicked")
            => generation_left' = generation_left
       /\ \A i \in 1..Len(SubmissionCalls') :
            SubmissionCalls'[i].op = "addRandomNumbers"]_vars

\* The loop has submitted a batch for a count of 5 and awaits its receipt.
C19_Witness ==
    /\ pc = "GetReceipt"
    /\ generation_left = FromNat(5, U256Limbs)
    /\ Len(SubmissionCalls) = 1
    /\ SubmissionCalls[1].op = "addRandomNumbers"
    /\ Len(SubmissionCalls[1].data) = 5

\* C20: the process starts by subscribing, with no log queued and none
\* queued until the subscription is made; then it asks for the capacity
\* broadcast; then it reads the nonce and sets the count to 0; only then does
\* it take the first log, with the count at 0 and the nonce that was read.
C20_StartupOrdering ==
    /\ pc = "Subscribe" /\ stream = 0 /\ log = NoLog
    /\ [][/\ pc = "Subscribe"
               => stream' = 0 /\ log' = NoLog /\ pc' \in {"EmitCapacity", "Exited"}
          /\ pc = "EmitCapacity"
               => log' = NoLog /\ pc' \in {"EmitCapacity", "InitNonce", "Exited"}
          /\ pc = "InitNonce"
               => /\ log' = NoLog
                  /\ pc' \in {"InitNonce", "Idle", "Exited"}
                  /\ (pc' = "Idle"
                        => IsZero(generation_left') /\ nonce' \in ChainNonces)
          /\ pc' = "EmitCapacity" => pc \in {"Subscribe", "EmitCapacity"}
          /\ pc' = "InitNonce" => pc \in {"EmitCapacity", "InitNonce"}
          /\ (ConsumesLog /\ log = NoLog)
               => /\ IsZero(generation_left)
                  /\ nonce \in ChainNonces
                  /\ nonce' = nonce]_vars

\* Startup is over: the nonce read from the chain is held, the count is 0, and
\* logs that arrived since the subscription wait for the first stream.next().
C20_Witness ==
    /\ pc = "Idle"
    /\ log = NoLog
    /\ stream > 1
    /\ nonce = U64Top(1)
    /\ IsZero(generation_left)

====
